---------------------------- MODULE Spec2Model ----------------------------
(***************************************************************************)
(* Model of the normalization and enrichment utilities:                    *)
(*   utilities/helper_functions_for_forecasting.py  (HelperFunctions)      *)
(*   utilities/segmentation_helper_functions.py     (SegmentationHelper)   *)
(*                                                                         *)
(* Strings are sequences of one-character strings.  A Python float is      *)
(* kept as a record [k, n]: k is "fin", "nan" or "inf" and n counts halves *)
(* (n = 2 * value), which is exact for every value the modelled inputs     *)
(* produce (integers and means of two integers).                           *)
(***************************************************************************)
EXTENDS Integers, Sequences, FiniteSets, TLC

VARIABLES
    task_template,     \* SegmentationHelper.task_template
    system_prompt,     \* SegmentationHelper.system_prompt
    allowed_behavior,  \* SegmentationHelper.allowed_behavior
    allowed_stage,     \* SegmentationHelper.allowed_stage
    allowed_focus,     \* SegmentationHelper.allowed_focus
    allowed_urgency,   \* SegmentationHelper.allowed_urgency
    ctor,              \* the arguments the instance was constructed with
    pc,                \* position of the single sequential caller
    arg,               \* argument of the call in progress
    ret,               \* value returned (or exception raised) by the call
    callers            \* parallel callers of one SegmentationHelper instance

vars == <<task_template, system_prompt, allowed_behavior, allowed_stage,
          allowed_focus, allowed_urgency, ctor, pc, arg, ret, callers>>

instance == <<task_template, system_prompt, allowed_behavior, allowed_stage,
              allowed_focus, allowed_urgency>>

-----------------------------------------------------------------------------
(* Bounds of the model *)

MaxPieces == 3      \* pieces concatenated into an EMPLOYEE_RANGE string

-----------------------------------------------------------------------------
(* Python values *)

None == [k |-> "None", n |-> 0]
NaN == [k |-> "nan", n |-> 0]
Inf == [k |-> "inf", n |-> 0]
Fin(halves) == [k |-> "fin", n |-> halves]
Float(i) == Fin(2 * i)

-----------------------------------------------------------------------------
(* str methods *)

IsSpace(c) == c \in {" ", "\n"}

RECURSIVE LStrip(_)
LStrip(s) == IF s # <<>> /\ IsSpace(Head(s)) THEN LStrip(Tail(s)) ELSE s

RECURSIVE RStrip(_)
RStrip(s) ==
    IF s # <<>> /\ IsSpace(s[Len(s)]) THEN RStrip(SubSeq(s, 1, Len(s) - 1)) ELSE s

Strip(s) == RStrip(LStrip(s))

\* s.replace(c, "")
RemoveChar(s, c) == SelectSeq(s, LAMBDA x : x # c)

LowerChar(c) == IF c = "T" THEN "t" ELSE IF c = "O" THEN "o" ELSE c

\* s.lower()
Lower(s) == [i \in 1..Len(s) |-> LowerChar(s[i])]

StartsAt(s, sub, i) ==
    /\ i + Len(sub) - 1 <= Len(s)
    /\ \A j \in 1..Len(sub) : s[i + j - 1] = sub[j]

\* s.find(sub), 1-based; 0 when sub does not occur
Find(s, sub) ==
    LET hits == {i \in 1..Len(s) : StartsAt(s, sub, i)}
    IN  IF hits = {} THEN 0 ELSE CHOOSE i \in hits : \A j \in hits : i <= j

\* sub in s
Contains(s, sub) == Find(s, sub) # 0

\* s.split(sep, 1)
Split1(s, sep) ==
    LET i == Find(s, sep)
    IN  IF i = 0 THEN <<s>>
        ELSE <<SubSeq(s, 1, i - 1), SubSeq(s, i + Len(sep), Len(s))>>

Digits == {"1", "2", "5"}

DigitVal(c) == IF c = "1" THEN 1 ELSE IF c = "2" THEN 2 ELSE 5

RECURSIVE DigitsVal(_)
DigitsVal(s) ==
    IF s = <<>> THEN 0 ELSE 10 * DigitsVal(SubSeq(s, 1, Len(s) - 1)) + DigitVal(s[Len(s)])

AllDigits(s) == s # <<>> /\ \A i \in 1..Len(s) : s[i] \in Digits

\* float(s) for a str s: surrounding whitespace is ignored, one sign is allowed,
\* then digits, or the words nan and inf.  ok = FALSE stands for ValueError.
FloatOfStr(s) ==
    LET t == Strip(s)
        signed == t # <<>> /\ Head(t) \in {"+", "-"}
        body == IF signed THEN Tail(t) ELSE t
        mag == DigitsVal(body)
    IN  IF AllDigits(body)
        THEN [ok |-> TRUE, v |-> Float(IF signed /\ Head(t) = "-" THEN -mag ELSE mag)]
        ELSE IF body = <<"n", "a", "n">> THEN [ok |-> TRUE, v |-> NaN]
        ELSE IF body = <<"i", "n", "f">> THEN [ok |-> TRUE, v |-> Inf]
        ELSE [ok |-> FALSE, v |-> NaN]

-----------------------------------------------------------------------------
(* HelperFunctions.parse_employee_range_to_midpoint *)

Str(s) == [isna |-> FALSE, s |-> s]
NaVal == [isna |-> TRUE, s |-> <<>>]

\* (lo + hi) / 2.0, for the finite operands the modelled characters yield
Mean(lo, hi) == Fin((lo.n + hi.n) \div 2)

\* the two-sided rules: both parts parsed, None when either float() raises
MeanOfParts(parts) ==
    LET lo == FloatOfStr(Strip(parts[1]))
        hi == FloatOfStr(Strip(parts[2]))
    IN  IF lo.ok /\ hi.ok THEN Mean(lo.v, hi.v) ELSE None

SingleNumber(s) ==
    LET f == FloatOfStr(RemoveChar(s, ","))
    IN  IF f.ok THEN f.v ELSE NaN

ToRule(s) ==
    LET parts == Split1(RemoveChar(s, ","), <<" ", "t", "o", " ">>)
        m == IF Len(parts) = 2 THEN MeanOfParts(parts) ELSE None
    IN  IF Contains(Lower(s), <<" ", "t", "o", " ">>) /\ m # None
        THEN m
        ELSE SingleNumber(s)

DashRule(s) ==
    LET parts == Split1(RemoveChar(s, ","), <<"-">>)
        m == IF Len(parts) = 2 THEN MeanOfParts(parts) ELSE None
    IN  IF Contains(s, <<"-">>) /\ m # None
        THEN m
        ELSE ToRule(s)

PlusRule(s) ==
    LET f == FloatOfStr(Strip(RemoveChar(SubSeq(s, 1, Len(s) - 1), ",")))
    IN  IF f.ok THEN f.v ELSE NaN

parse_employee_range_to_midpoint(val) ==
    IF val.isna THEN NaN
    ELSE LET s == Strip(val.s)
         IN  IF s = <<>> THEN NaN
             ELSE IF s[Len(s)] = "+" THEN PlusRule(s)
             ELSE DashRule(s)

-----------------------------------------------------------------------------
(* SegmentationHelper: class attributes and constructor *)

DEFAULT_ALLOWED ==
    << <<"High Deals + Multi-user", "Pipeline-driven", "Forecasting + automation">>,
       <<"High Email", "Outreach-focused", "Sequences + tracking">>,
       <<"High Contacts only", "Early stage", "Pipeline setup">>,
       <<"Single-user heavy", "Expansion opportunity", "Team invites">>,
       <<"Multi-user low activity", "Stalled", "Reactivation">>,
       <<"Balanced usage", "High intent", "Direct upgrade">> >>

DEFAULT_ALLOWED_URGENCY == {"reach_out_now", "nurture", "reactivate"}

\* An optional argument: [some |-> FALSE] is Python's None.
Absent(empty) == [some |-> FALSE, v |-> empty]
Given(v) == [some |-> TRUE, v |-> v]

\* Path(p).read_text(): the content of the one template file of the model
ReadText(path) == <<[ph |-> FALSE, t |-> " "], [ph |-> TRUE, t |-> "ID"], [ph |-> FALSE, t |-> " "]>>

\* task_template: the literal, else the file's text, else ""
InitTaskTemplate(a) ==
    IF a.task_template.some THEN a.task_template.v
    ELSE IF a.prompt_task_path.some THEN ReadText(a.prompt_task_path.v)
    ELSE <<>>

StripTemplate(t) ==
    LET sp(x) == ~x.ph /\ IsSpace(x.t)
        first == {i \in 1..Len(t) : ~sp(t[i])}
    IN  IF first = {} THEN <<>>
        ELSE SubSeq(t, CHOOSE i \in first : \A j \in first : i <= j,
                       CHOOSE i \in first : \A j \in first : i >= j)

\* system_prompt: the literal, else the file's text stripped, else ""
InitSystemPrompt(a) ==
    IF a.system_prompt.some THEN a.system_prompt.v
    ELSE IF a.prompt_system_path.some THEN StripTemplate(ReadText(a.prompt_system_path.v))
    ELSE <<>>

\* InitAllowed testing "allowed is not None" in place of the truth of allowed
InitAllowed_IsNotNone(allowed) == IF allowed.some THEN allowed.v ELSE DEFAULT_ALLOWED

\* allowed = allowed or self.DEFAULT_ALLOWED
InitAllowed(allowed) ==
    IF allowed.some /\ allowed.v # <<>> THEN allowed.v ELSE DEFAULT_ALLOWED

\* self.allowed_urgency = allowed_urgency or self.DEFAULT_ALLOWED_URGENCY
InitAllowedUrgency(urgency) ==
    IF urgency.some /\ urgency.v # {} THEN urgency.v ELSE DEFAULT_ALLOWED_URGENCY

Column(allowed, i) == {allowed[j][i] : j \in 1..Len(allowed)}

\* SegmentationHelper.__init__: the instance the arguments a construct
Construct(a) ==
    /\ ctor = a
    /\ task_template = InitTaskTemplate(a)
    /\ system_prompt = InitSystemPrompt(a)
    /\ allowed_behavior = Column(InitAllowed(a.allowed), 1)
    /\ allowed_stage = Column(InitAllowed(a.allowed), 2)
    /\ allowed_focus = Column(InitAllowed(a.allowed), 3)
    /\ allowed_urgency = InitAllowedUrgency(a.allowed_urgency)

\* SegmentationHelper() with no arguments
NoArgs ==
    [task_template |-> Absent(<<>>), system_prompt |-> Absent(<<>>),
     allowed |-> Absent(<<>>), allowed_urgency |-> Absent({}),
     prompt_task_path |-> Absent(""), prompt_system_path |-> Absent("")]

\* The fields of the instance a method reads through self
Self ==
    [task_template |-> task_template, system_prompt |-> system_prompt,
     allowed_behavior |-> allowed_behavior, allowed_stage |-> allowed_stage,
     allowed_focus |-> allowed_focus, allowed_urgency |-> allowed_urgency]

-----------------------------------------------------------------------------
(* SegmentationHelper.parse_and_validate *)
(* A response text is a sequence of lexemes: the fence (three   *)
(* backticks, written <fence>), the words json                            *)
(* and py, a blank, a newline, and the JSON texts {} (the text of the      *)
(* object the call carries in obj), [] and 7.                              *)

Fence == "<fence>"

JStr(s) == [ty |-> "str", s |-> s]
JNull == [ty |-> "null", s |-> ""]
JList == [ty |-> "list", s |-> ""]
JMissing == [ty |-> "missing", s |-> ""]

Keys == {"behavior_pattern", "likely_stage", "playbook_focus", "urgency",
         "subject_line", "opening_line"}

empty ==
    [exc |-> "none", BehaviourPattern |-> JNull, LikelyStage |-> JNull,
     PlaybookFocus |-> JNull, Urgency |-> JNull, SubjectLine |-> JNull,
     OpeningLine |-> JNull]

Raise(e) == [empty EXCEPT !.exc = e]

\* GroupStart for the pattern without (?:json)?
GroupStart_NoTag(text, i) ==
    LET rest == {p \in (i + 1)..Len(text) : ~IsSpace(text[p])}
    IN  IF rest = {} THEN Len(text) + 1 ELSE CHOOSE p \in rest : \A q \in rest : p <= q

\* re.search(r"<fence>(?:json)?\s*\n?(.*?)\n?<fence>", text, re.DOTALL) tried at
\* position i.  GroupStart: where group 1 starts, after the opening fence, the
\* optional word json and the greedy \s*.
GroupStart(text, i) ==
    LET j == IF i + 1 <= Len(text) /\ text[i + 1] = "json" THEN i + 2 ELSE i + 1
        rest == {p \in j..Len(text) : ~IsSpace(text[p])}
    IN  IF rest = {} THEN Len(text) + 1 ELSE CHOOSE p \in rest : \A q \in rest : p <= q

\* GroupEnd: where the lazy group 1 ends, at the first closing fence (with the
\* newline before it, if any); 0 when the pattern does not match at i.
GroupEnd(text, i) ==
    LET closes == {e \in GroupStart(text, i)..Len(text) :
                      \/ text[e] = Fence
                      \/ text[e] = "\n" /\ e + 1 <= Len(text) /\ text[e + 1] = Fence}
    IN  IF text[i] # Fence \/ closes = {} THEN 0
        ELSE CHOOSE e \in closes : \A q \in closes : e <= q

\* match.group(1) of the leftmost match; ok = FALSE when re.search returns None
FenceSearch(text) ==
    LET at == {i \in 1..Len(text) : GroupEnd(text, i) # 0}
        i == CHOOSE x \in at : \A y \in at : x <= y
    IN  IF at = {} THEN [ok |-> FALSE, g |-> <<>>]
        ELSE [ok |-> TRUE, g |-> SubSeq(text, GroupStart(text, i), GroupEnd(text, i) - 1)]

\* lines 107-111: trim, then unwrap a fenced block
Unfence(text) ==
    LET t == Strip(text)
        m == FenceSearch(t)
    IN  IF t # <<>> /\ Head(t) = Fence /\ m.ok THEN Strip(m.g) ELSE t

\* json.loads(text): ok = FALSE stands for JSONDecodeError
JsonLoads(text) ==
    LET t == Strip(text)
    IN  IF t # <<>> /\ \A i \in 1..Len(t) : t[i] = "7"
        THEN [ok |-> TRUE, ty |-> "num"]
        ELSE IF Len(t) = 1 /\ t[1] = "{}" THEN [ok |-> TRUE, ty |-> "dict"]
        ELSE IF Len(t) = 1 /\ t[1] = "[]" THEN [ok |-> TRUE, ty |-> "list"]
        ELSE [ok |-> FALSE, ty |-> ""]

\* obj.get(key)
Get(obj, key) == IF obj[key] = JMissing THEN JNull ELSE obj[key]

\* hash(x) raises TypeError for a list
Hashable(x) == x.ty # "list"

\* x if x in allowed else None
Validated(x, allowed) == IF x.ty = "str" /\ x.s \in allowed THEN x ELSE JNull

\* lines 118-143: validation of the parsed dict, in statement order;
\* "x not in a_set" hashes x and raises TypeError when x is unhashable
ValidateObj(self, obj) ==
    LET behavior == Get(obj, "behavior_pattern")
        stage == Get(obj, "likely_stage")
        focus == Get(obj, "playbook_focus")
        urgency == Get(obj, "urgency")
    IN  IF \E x \in {behavior, stage, focus, urgency} : ~Hashable(x)
        THEN Raise("TypeError")
        ELSE [exc |-> "none",
              BehaviourPattern |-> Validated(behavior, self.allowed_behavior),
              LikelyStage |-> Validated(stage, self.allowed_stage),
              PlaybookFocus |-> Validated(focus, self.allowed_focus),
              Urgency |-> Validated(urgency, self.allowed_urgency),
              SubjectLine |-> Get(obj, "subject_line"),
              OpeningLine |-> Get(obj, "opening_line")]

\* a = [text, obj]: the response text, and the object its lexeme {} denotes
parse_and_validate(self, a) ==
    LET parsed == JsonLoads(Unfence(a.text))
    IN  IF ~parsed.ok THEN empty
        ELSE IF parsed.ty # "dict" THEN Raise("AttributeError")
        ELSE ValidateObj(self, a.obj)

-----------------------------------------------------------------------------
(* SegmentationHelper._num, _int, _str and build_prompt *)
(* A value of a row is [k, f, s]: its Python type k, and its float f or    *)
(* its characters s.  Missing marks a key the row does not have.           *)

PyNone == [k |-> "None", f |-> Fin(0), s |-> <<>>]
PyFloat(f) == [k |-> "float", f |-> f, s |-> <<>>]
PyInt(i) == [k |-> "int", f |-> Float(i), s |-> <<>>]
PyStr(s) == [k |-> "str", f |-> Fin(0), s |-> s]
Missing == [k |-> "missing", f |-> Fin(0), s |-> <<>>]

Returned(v) == [exc |-> "none", v |-> v]
Raised(e) == [exc |-> e, v |-> PyNone]

\* row.get(key, default)
RowGet(row, key, default) == IF row[key] = Missing THEN default ELSE row[key]

\* x is None or (isinstance(x, float) and pd.isna(x))
IsNoneOrNaN(x) == x.k = "None" \/ (x.k = "float" /\ x.f.k = "nan")

\* _num: default for None/NaN and when float(x) raises, else float(x)
_num(x, default) ==
    IF IsNoneOrNaN(x) THEN default
    ELSE IF x.k \in {"float", "int"} THEN PyFloat(x.f)
    ELSE IF FloatOfStr(x.s).ok THEN PyFloat(FloatOfStr(x.s).v)
    ELSE default

\* round(x) of a finite float: to the nearest integer, ties to the even one
RoundHalfEven(halves) ==
    LET lo == halves \div 2
    IN  IF halves % 2 = 0 THEN lo ELSE IF lo % 2 = 0 THEN lo ELSE lo + 1

\* _int: int(round(_num(x, default))); round() raises on nan and on inf
_int(x, default) ==
    LET n == _num(x, default)
    IN  IF n.f.k = "nan" THEN Raised("ValueError")
        ELSE IF n.f.k = "inf" THEN Raised("OverflowError")
        ELSE Returned(PyInt(RoundHalfEven(n.f.n)))

DigitChar(d) == <<"0", "1", "2", "3", "4", "5", "6", "7", "8", "9">>[d + 1]

RECURSIVE NatToStr(_)
NatToStr(i) == IF i < 10 THEN <<DigitChar(i)>> ELSE NatToStr(i \div 10) \o <<DigitChar(i % 10)>>

IntToStr(i) == IF i < 0 THEN <<"-">> \o NatToStr(-i) ELSE NatToStr(i)

\* str(f) of a float
FloatToStr(f) ==
    IF f.k = "nan" THEN <<"n", "a", "n">>
    ELSE IF f.k = "inf" THEN <<"i", "n", "f">>
    ELSE LET mag == IF f.n < 0 THEN -f.n ELSE f.n
         IN  (IF f.n < 0 THEN <<"-">> ELSE <<>>) \o NatToStr(mag \div 2)
             \o <<".", IF mag % 2 = 0 THEN "0" ELSE "5">>

\* str(x), which is also what str.format puts for {NAME}
ToStr(x) ==
    IF x.k = "str" THEN x.s
    ELSE IF x.k = "int" THEN IntToStr(x.f.n \div 2)
    ELSE IF x.k = "float" THEN FloatToStr(x.f)
    ELSE <<"N", "o", "n", "e">>

\* _str: default for None/NaN, else str(x)
_str(x, default) == IF IsNoneOrNaN(x) THEN default ELSE PyStr(ToStr(x))

Placeholders ==
    <<"ID", "INDUSTRY", "EMPLOYEE_RANGE", "ALEXA_RANK", "P",
      "DEALS_30", "EMAIL_30", "UDEALS_30", "UEMAIL_30">>

\* the keyword arguments of task_template.format(...), each Returned or Raised
Kwargs(row) ==
    [ID |-> Returned(_str(RowGet(row, "id", RowGet(row, "id", PyNone)), PyStr(<<>>))),
     INDUSTRY |-> Returned(_str(RowGet(row, "INDUSTRY", PyNone), PyStr(<<>>))),
     EMPLOYEE_RANGE |-> Returned(_str(RowGet(row, "EMPLOYEE_RANGE", PyNone), PyStr(<<>>))),
     ALEXA_RANK |-> Returned(_str(RowGet(row, "ALEXA_RANK", PyNone), PyStr(<<>>))),
     P |-> Returned(_num(RowGet(row, "P_CONVERT_30D", RowGet(row, "P", PyFloat(Fin(0)))),
                         PyFloat(Fin(0)))),
     DEALS_30 |-> _int(RowGet(row, "DEALS_30",
                              RowGet(row, "ACTIONS_CRM_DEALS_30D_SUM", PyInt(0))), PyInt(0)),
     EMAIL_30 |-> _int(RowGet(row, "EMAIL_30",
                              RowGet(row, "ACTIONS_EMAIL_30D_SUM", PyInt(0))), PyInt(0)),
     UDEALS_30 |-> _int(RowGet(row, "UDEALS_30",
                               RowGet(row, "USERS_CRM_DEALS_30D_SUM", PyInt(0))), PyInt(0)),
     UEMAIL_30 |-> _int(RowGet(row, "UEMAIL_30",
                               RowGet(row, "USERS_EMAIL_30D_SUM", PyInt(0))), PyInt(0))]

\* str.format: a template is a sequence of literal characters [ph |-> FALSE] and
\* replacement fields [ph |-> TRUE]; a field no keyword names raises KeyError
RECURSIVE Format(_, _)
Format(template, kw) ==
    IF template = <<>> THEN [exc |-> "none", s |-> <<>>]
    ELSE LET x == Head(template)
             rest == Format(Tail(template), kw)
         IN  IF x.ph /\ x.t \notin DOMAIN kw THEN [exc |-> "KeyError", s |-> <<>>]
             ELSE IF rest.exc # "none" THEN rest
             ELSE [exc |-> "none",
                   s |-> (IF x.ph THEN ToStr(kw[x.t].v) ELSE <<x.t>>) \o rest.s]

\* build_prompt: the arguments are evaluated in order, the first exception wins
build_prompt(self, row) ==
    LET kw == Kwargs(row)
        bad == {i \in 1..Len(Placeholders) : kw[Placeholders[i]].exc # "none"}
    IN  IF bad # {}
        THEN [exc |-> kw[Placeholders[CHOOSE i \in bad : \A j \in bad : i <= j]].exc,
              s |-> <<>>]
        ELSE Format(self.task_template, kw)

-----------------------------------------------------------------------------
(* HelperFunctions.complete_daily_index *)
(* A table is a sequence of rows [id, DATE, A, B]; DATE is a day number, a *)
(* cell is [na, v] with na = TRUE for an absent (NaN) cell.  A is the      *)
(* column named in agg_cols, B a column that is not.                       *)

Cell(v) == [na |-> FALSE, v |-> v]
NA == [na |-> TRUE, v |-> 0]

Row(id, date, a, b) == [id |-> id, DATE |-> date, A |-> a, B |-> b]

\* df["DATE"].min(), df["DATE"].max()
MinDate(df) == CHOOSE d \in {df[i].DATE : i \in 1..Len(df)} : \A i \in 1..Len(df) : d <= df[i].DATE
MaxDateOf(df) == CHOOSE d \in {df[i].DATE : i \in 1..Len(df)} : \A i \in 1..Len(df) : d >= df[i].DATE

\* DateRange leaving out the last day
DateRange_OpenEnd(dmin, dmax) == [i \in 1..(dmax - dmin) |-> dmin + i - 1]

\* pd.date_range(dmin, dmax, freq="D"): every day from dmin to dmax, both included
DateRange(dmin, dmax) == [i \in 1..(dmax - dmin + 1) |-> dmin + i - 1]

\* the rows a left row (id, date) gets in full.merge(df, on=["id", "DATE"], how="left"):
\* every matching row of df in df's order, or one row of absent cells
MergeRows(id, date, df) ==
    LET hits == SelectSeq(df, LAMBDA r : r.id = id /\ r.DATE = date)
    IN  IF hits = <<>> THEN <<Row(id, date, NA, NA)>> ELSE hits

RECURSIVE LeftMerge(_, _, _)
LeftMerge(id, dates, df) ==
    IF dates = <<>> THEN <<>>
    ELSE MergeRows(id, Head(dates), df) \o LeftMerge(id, Tail(dates), df)

\* FillNa that fills nothing
FillNa_Skipped(out) == out

\* out[agg_cols] = out[agg_cols].fillna(0.0), with agg_cols = ["A"]
FillNa(out) == [i \in 1..Len(out) |-> IF out[i].A.na THEN [out[i] EXCEPT !.A = Cell(0)] ELSE out[i]]

\* complete_daily_index(df, ["A"]); df["id"].iloc[0] raises IndexError on an empty table
complete_daily_index(df) ==
    IF df = <<>> THEN [exc |-> "IndexError", out |-> <<>>]
    ELSE LET cid == df[1].id
             full == DateRange(MinDate(df), MaxDateOf(df))
         IN  [exc |-> "none", out |-> FillNa(LeftMerge(cid, full, df))]

-----------------------------------------------------------------------------
(* HelperFunctions.days_since_last_activity *)
(* A Timestamp is a number of ticks, TicksPerDay of them to the day.       *)

TicksPerDay == 2

\* last_active.get(company_id, [])
DictGet(d, key, default) == IF key \in DOMAIN d THEN d[key] ELSE default

\* OnOrBefore with a strict comparison
OnOrBefore_Strict(d, snapshot_date) == d < snapshot_date

\* d <= snapshot_date
OnOrBefore(d, snapshot_date) == d <= snapshot_date

\* prior = [d for d in dates if d <= snapshot_date]
Prior(dates, snapshot_date) == SelectSeq(dates, LAMBDA d : OnOrBefore(d, snapshot_date))

\* max(prior)
RECURSIVE MaxOf(_)
MaxOf(s) ==
    IF Len(s) = 1 THEN s[1]
    ELSE LET m == MaxOf(Tail(s)) IN IF Head(s) >= m THEN Head(s) ELSE m

\* (a - b).days: whole days of a Timedelta, rounded down
Days(delta) == delta \div TicksPerDay

days_since_last_activity(company_id, snapshot_date, last_active) ==
    LET dates == DictGet(last_active, company_id, <<>>)
        prior == Prior(dates, snapshot_date)
    IN  IF prior = <<>> THEN NaN ELSE Float(Days(snapshot_date - MaxOf(prior)))

-----------------------------------------------------------------------------
(* Callers *)

Callers == {1, 2}

NoRet == [exc |-> "pending"]
NoArg == [op |-> "none"]
Idle == [pc |-> "idle", op |-> "none", arg |-> NoArg, ret |-> NoRet]

\* no parallel caller is at work
NoCallers == [c \in Callers |-> Idle]

\* a sequential caller holding the argument a, in front of a default instance
Start(a) ==
    /\ Construct(NoArgs)
    /\ callers = NoCallers
    /\ pc = "start"
    /\ arg = a
    /\ ret = NoRet

RECURSIVE Concat(_)
Concat(ss) == IF ss = <<>> THEN <<>> ELSE Head(ss) \o Concat(Tail(ss))

SeqsUpTo(S, n) == UNION {[1..m -> S] : m \in 0..n}

-----------------------------------------------------------------------------
(* Specification of parse_employee_range_to_midpoint *)

To == <<" ", "t", "o", " ">>

Pieces ==
    {<<"1">>, <<"2">>, <<"5">>, <<",">>, <<" ">>, <<"-">>, <<"+">>, <<"x">>,
     To, <<" ", "T", "O", " ">>, <<" ", "T", "o", " ">>}

MidpointInputs == {NaVal} \cup {Str(Concat(ps)) : ps \in SeqsUpTo(Pieces, MaxPieces)}

InitMidpoint == \E a \in MidpointInputs : Start(a)

ParseMidpoint ==
    /\ pc = "start"
    /\ pc' = "done"
    /\ ret' = parse_employee_range_to_midpoint(arg)
    /\ UNCHANGED <<instance, ctor, arg, callers>>

NextMidpoint == ParseMidpoint

SpecMidpoint == InitMidpoint /\ [][NextMidpoint]_vars

\* The two sides of the first " to " of s, whatever its letter case, with the
\* thousands separators removed
ToSides(s) ==
    LET i == Find(Lower(s), To)
    IN  <<RemoveChar(SubSeq(s, 1, i - 1), ","), RemoveChar(SubSeq(s, i + Len(To), Len(s)), ",")>>

ToRange(s) ==
    /\ s # <<>>
    /\ s[Len(s)] # "+"
    /\ ~Contains(s, <<"-">>)
    /\ Contains(Lower(s), To)
    /\ FloatOfStr(ToSides(s)[1]).ok
    /\ FloatOfStr(ToSides(s)[2]).ok

\* C6: a string that does not end in + and has no -, and holds " to " in any letter
\* case with both sides of its first occurrence parseable as floats, yields the
\* arithmetic mean of the two sides.
C6_ToAnyCase ==
    (pc = "done" /\ ~arg.isna /\ ToRange(Strip(arg.s)))
        => ret = Mean(FloatOfStr(ToSides(Strip(arg.s))[1]).v,
                      FloatOfStr(ToSides(Strip(arg.s))[2]).v)

\* The same holds of the lower-case " to ", the one split(" to ", 1) finds.
C6_ToLowerCase ==
    (pc = "done" /\ ~arg.isna /\ ToRange(Strip(arg.s)) /\ Contains(Strip(arg.s), To))
        => ret = Mean(FloatOfStr(ToSides(Strip(arg.s))[1]).v,
                      FloatOfStr(ToSides(Strip(arg.s))[2]).v)

-----------------------------------------------------------------------------
(* Specification of complete_daily_index: a table is gap-filled, and the   *)
(* result is gap-filled again.                                             *)

MaxRows == 3        \* rows of an input table
MaxDate == 3        \* day numbers 1..MaxDate

Entities == {"a", "b"}

InputRows == {Row(id, d, a, Cell(1)) : id \in Entities, d \in 1..MaxDate, a \in {NA, Cell(5)}}

InitGapFill == \E df \in SeqsUpTo(InputRows, MaxRows) : Start(df)

GapFill ==
    /\ pc = "start"
    /\ pc' = "once"
    /\ ret' = [first |-> complete_daily_index(arg), again |-> NoRet]
    /\ UNCHANGED <<instance, ctor, arg, callers>>

GapFillAgain ==
    /\ pc = "once"
    /\ ret.first.exc = "none"
    /\ pc' = "twice"
    /\ ret' = [ret EXCEPT !.again = complete_daily_index(ret.first.out)]
    /\ UNCHANGED <<instance, ctor, arg, callers>>

NextGapFill == GapFill \/ GapFillAgain

SpecGapFill == InitGapFill /\ [][NextGapFill]_vars

SingleEntity(df) == \A i \in 1..Len(df) : df[i].id = df[1].id

DistinctDates(df) == \A i, j \in 1..Len(df) : df[i].DATE = df[j].DATE => i = j

DatesOf(df) == {df[i].DATE : i \in 1..Len(df)}

RowsOn(df, d) == {i \in 1..Len(df) : df[i].DATE = d}

\* out has exactly one row for each day from the first to the last day of df and
\* no other row; a row of a day df does not have holds 0.0 in A and df's entity
GapFilled(df, out) ==
    /\ \A d \in MinDate(df)..MaxDateOf(df) : Cardinality(RowsOn(out, d)) = 1
    /\ DatesOf(out) = MinDate(df)..MaxDateOf(df)
    /\ \A i \in 1..Len(out) :
           out[i].DATE \notin DatesOf(df) => out[i].A = Cell(0) /\ out[i].id = df[1].id

\* C4 as stated: for any non-empty table of one entity the output has exactly one
\* row per calendar day between the minimum and maximum DATE, without gaps or
\* duplicates, and a row of a day absent from the input has 0.0 in the aggregate
\* column and the shared id.
C4_AnyTable ==
    (pc = "once" /\ arg # <<>> /\ SingleEntity(arg))
        => ret.first.exc = "none" /\ GapFilled(arg, ret.first.out)

\* C4 amended: the same for a non-empty table of one entity that has at most one
\* row per DATE.
C4_DistinctDates ==
    (pc = "once" /\ arg # <<>> /\ SingleEntity(arg) /\ DistinctDates(arg))
        => ret.first.exc = "none" /\ GapFilled(arg, ret.first.out)

\* a table of one entity with one row per day and a missing day has been filled
C4_Witness ==
    /\ pc = "once"
    /\ Len(arg) >= 2
    /\ SingleEntity(arg)
    /\ DistinctDates(arg)
    /\ Len(ret.first.out) > Len(arg)

\* C8: gap-filling the output of a gap-fill of a single-entity table returns that
\* output unchanged: the same rows with the same dates and values.
C8_Idempotent ==
    (pc = "twice" /\ SingleEntity(arg))
        => ret.again.exc = "none" /\ ret.again.out = ret.first.out

\* the second gap-fill ran on an output that holds filled days
C8_Witness ==
    /\ pc = "twice"
    /\ SingleEntity(arg)
    /\ Len(ret.first.out) > Len(arg)
    /\ ret.again.exc = "none"

-----------------------------------------------------------------------------
(* Specification of days_since_last_activity *)

MaxLog == 3         \* dates in one entity's activity log
MaxTick == 4        \* Timestamps 0..MaxTick

\* a log for entity "a", entity "b" known with an empty log, or neither
ActivityLogs ==
    {[e \in S |-> IF e = "a" THEN dates ELSE <<>>] :
        S \in {{}, {"a"}, {"a", "b"}}, dates \in SeqsUpTo(0..MaxTick, MaxLog)}

RecencyInputs ==
    [company_id : Entities, snapshot_date : 0..MaxTick, last_active : ActivityLogs]

InitRecency == \E a \in RecencyInputs : Start(a)

DaysSince ==
    /\ pc = "start"
    /\ pc' = "done"
    /\ ret' = days_since_last_activity(arg.company_id, arg.snapshot_date, arg.last_active)
    /\ UNCHANGED <<instance, ctor, arg, callers>>

NextRecency == DaysSince

SpecRecency == InitRecency /\ [][NextRecency]_vars

\* the activity dates of the entity on or before the snapshot, as a set
Qualifying(a) ==
    IF a.company_id \in DOMAIN a.last_active
    THEN {a.last_active[a.company_id][i] : i \in 1..Len(a.last_active[a.company_id])}
             \cap 0..a.snapshot_date
    ELSE {}

Latest(S) == CHOOSE d \in S : \A e \in S : d >= e

\* C5: the result is the sentinel exactly when the entity is absent from the log
\* or has no activity date on or before the snapshot; otherwise it is the whole-day
\* difference between the snapshot and the latest such date, never negative, and
\* decided by the set of dates alone, not by their order.
C5_Recency ==
    pc = "done" =>
        /\ ret = NaN <=> Qualifying(arg) = {}
        /\ Qualifying(arg) # {} =>
               /\ ret = Float((arg.snapshot_date - Latest(Qualifying(arg))) \div TicksPerDay)
               /\ ret.n >= 0

\* a log out of date order, with a date after the snapshot and one a day or more
\* before it
C5_Witness ==
    /\ pc = "done"
    /\ arg.company_id \in DOMAIN arg.last_active
    /\ Len(arg.last_active[arg.company_id]) >= 2
    /\ arg.last_active[arg.company_id][1] > arg.snapshot_date
    /\ ret.k = "fin"
    /\ ret.n > 0

-----------------------------------------------------------------------------
(* Specification of build_prompt *)

MaxPresent == 2     \* fields a FeatureRow holds

Fields ==
    {"id", "INDUSTRY", "EMPLOYEE_RANGE", "ALEXA_RANK", "P_CONVERT_30D", "P",
     "DEALS_30", "ACTIONS_CRM_DEALS_30D_SUM", "EMAIL_30", "ACTIONS_EMAIL_30D_SUM",
     "UDEALS_30", "USERS_CRM_DEALS_30D_SUM", "UEMAIL_30", "USERS_EMAIL_30D_SUM"}

\* None, NaN, 2.5, inf, 2, "5", "nan" and "x"
FieldValues ==
    {PyNone, PyFloat(NaN), PyFloat(Fin(5)), PyFloat(Inf), PyInt(2),
     PyStr(<<"5">>), PyStr(<<"n", "a", "n">>), PyStr(<<"x">>)}

\* the row that holds the fields S with the values vals and no other field
FeatureRow(S, vals) == [f \in Fields |-> IF f \in S THEN vals[f] ELSE Missing]

Lit(c) == [ph |-> FALSE, t |-> c]
Ph(name) == [ph |-> TRUE, t |-> name]

\* a template of the nine documented placeholders, one with an unknown one
NineTemplate ==
    <<Ph("ID"), Lit(" "), Ph("INDUSTRY"), Lit(" "), Ph("EMPLOYEE_RANGE"), Lit(" "),
      Ph("ALEXA_RANK"), Lit(" "), Ph("P"), Lit(" "), Ph("DEALS_30"), Lit(" "),
      Ph("EMAIL_30"), Lit(" "), Ph("UDEALS_30"), Lit(" "), Ph("UEMAIL_30")>>

UnknownTemplate == <<Ph("ID"), Lit(" "), Ph("SEGMENT")>>

InitPrompt ==
    \E t \in {NineTemplate, UnknownTemplate} :
        /\ Construct([NoArgs EXCEPT !.task_template = Given(t)])
        /\ callers = NoCallers
        /\ pc = "start"
        /\ ret = NoRet
        /\ \E S \in SUBSET Fields :
               /\ Cardinality(S) <= MaxPresent
               /\ \E vals \in [S -> FieldValues] : arg = FeatureRow(S, vals)

BuildPrompt ==
    /\ pc = "start"
    /\ pc' = "done"
    /\ ret' = build_prompt(Self, arg)
    /\ UNCHANGED <<instance, ctor, arg, callers>>

NextPrompt == BuildPrompt

SpecPrompt == InitPrompt /\ [][NextPrompt]_vars


IntPlaceholders ==
    {<<"DEALS_30", "ACTIONS_CRM_DEALS_30D_SUM">>, <<"EMAIL_30", "ACTIONS_EMAIL_30D_SUM">>,
     <<"UDEALS_30", "USERS_CRM_DEALS_30D_SUM">>, <<"UEMAIL_30", "USERS_EMAIL_30D_SUM">>}

\* the value a numeric placeholder reads: the primary field, else the alternate
Resolved(row, primary, alternate) == RowGet(row, primary, RowGet(row, alternate, Missing))

\* missing, None, NaN, or text that float() does not accept
NonNumeric(x) ==
    \/ x.k \in {"missing", "None"}
    \/ x.k = "float" /\ x.f.k = "nan"
    \/ x.k = "str" /\ ~FloatOfStr(x.s).ok

\* C3: with a template of exactly the nine documented placeholders build_prompt
\* never raises, whatever the row holds, and a numeric field that is missing or
\* non-numeric resolves to 0.0 (to 0 for the four integer placeholders).
C3_NeverRaises ==
    (pc = "done" /\ task_template = NineTemplate) =>
        /\ ret.exc = "none"
        /\ NonNumeric(Resolved(arg, "P_CONVERT_30D", "P"))
               => Kwargs(arg).P = Returned(PyFloat(Fin(0)))
        /\ \A p \in IntPlaceholders :
               NonNumeric(Resolved(arg, p[1], p[2])) => Kwargs(arg)[p[1]] = Returned(PyInt(0))

-----------------------------------------------------------------------------
(* Specification of parse_and_validate on response texts *)

MaxLexemes == 5     \* lexemes of a response text

Lexemes == {Fence, "json", "py", "\n", "{}", "[]", "7"}

NoFields == [key \in Keys |-> JMissing]

\* {"urgency": "nurture"}
NurtureObj == [NoFields EXCEPT !["urgency"] = JStr("nurture")]

InitParse == \E t \in SeqsUpTo(Lexemes, MaxLexemes) : Start([text |-> t, obj |-> NurtureObj])

ParseAndValidate ==
    /\ pc = "start"
    /\ pc' = "done"
    /\ ret' = parse_and_validate(Self, arg)
    /\ UNCHANGED <<instance, ctor, arg, callers>>

NextParse == ParseAndValidate

SpecParse == InitParse /\ [][NextParse]_vars

\* C1: parse_and_validate never raises, and a text that does not parse as a JSON
\* object (invalid syntax, or valid JSON that is an array, a number, ...) yields
\* the all-absent result.
C1_NeverRaises ==
    pc = "done" =>
        /\ ret.exc = "none"
        /\ JsonLoads(Unfence(arg.text)).ty # "dict" => ret = empty

\* The content of a fenced text t: what lies between the opening fence, with the
\* tag after it when it is one of tags, and the first closing fence; t itself when
\* no closing fence follows.
Inner(t, tags) ==
    LET j == IF Len(t) >= 2 /\ t[2] \in tags THEN 3 ELSE 2
        closes == {e \in j..Len(t) : t[e] = Fence}
    IN  IF closes = {} THEN t
        ELSE SubSeq(t, j, (CHOOSE e \in closes : \A q \in closes : e <= q) - 1)

Fenced(t) == t # <<>> /\ Head(t) = Fence

\* C7 as stated: when the trimmed text begins with a fence, optionally followed by
\* a language tag (any tag, not only json), the result is that of the inner
\* content up to the first closing fence, and of the text as it is when no
\* closing fence is found.
C7_AnyTag ==
    (pc = "done" /\ Fenced(Strip(arg.text))) =>
        ret = parse_and_validate(Self, [arg EXCEPT !.text = Inner(Strip(arg.text), {"json", "py"})])

\* C7 amended: the same with json as the only tag that is skipped.
C7_JsonTag ==
    (pc = "done" /\ Fenced(Strip(arg.text))) =>
        ret = parse_and_validate(Self, [arg EXCEPT !.text = Inner(Strip(arg.text), {"json"})])

\* a fenced block tagged json was unwrapped and its object validated
C7_Witness ==
    /\ pc = "done"
    /\ Len(arg.text) >= 4
    /\ arg.text[1] = Fence
    /\ arg.text[2] = "json"
    /\ arg.text[Len(arg.text)] # Fence
    /\ ret.Urgency = JStr("nurture")

-----------------------------------------------------------------------------
(* Specification of parse_and_validate on JSON objects *)

\* a behavior, a stage, a focus and an urgency label of the default taxonomy
Labels == {"High Email", "Stalled", "Pipeline setup", "nurture"}

TaxonomyValues == {JMissing, JNull, JList} \cup {JStr(l) : l \in Labels}

FreeValues == {JMissing, JStr("Hi")}

Objects ==
    {[behavior_pattern |-> b, likely_stage |-> s, playbook_focus |-> f, urgency |-> u,
      subject_line |-> sl, opening_line |-> ol] :
        b \in TaxonomyValues, s \in TaxonomyValues, f \in TaxonomyValues,
        u \in TaxonomyValues, sl \in FreeValues, ol \in FreeValues}

InitValidate ==
    \E o \in Objects, t \in {<<"{}">>, <<Fence, "json", "\n", "{}", "\n", Fence>>} :
        Start([text |-> t, obj |-> o])

Validate ==
    /\ pc = "start"
    /\ pc' = "done"
    /\ ret' = parse_and_validate(Self, arg)
    /\ UNCHANGED <<instance, ctor, arg, callers>>

NextValidate == Validate

SpecValidate == InitValidate /\ [][NextValidate]_vars

\* the input value when it is a member of the field's own set, absent otherwise
OwnSet(x, allowed) == IF x.ty = "str" /\ x.s \in allowed THEN x ELSE JNull

\* C2: for every parsed JSON object each of the four taxonomy fields of the result
\* is the input value when that value is in the field's own set and absent
\* otherwise, whatever the sibling fields hold, and subject_line and opening_line
\* pass through.
C2_Independent ==
    pc = "done" =>
        /\ ret.exc = "none"
        /\ ret.BehaviourPattern = OwnSet(Get(arg.obj, "behavior_pattern"), allowed_behavior)
        /\ ret.LikelyStage = OwnSet(Get(arg.obj, "likely_stage"), allowed_stage)
        /\ ret.PlaybookFocus = OwnSet(Get(arg.obj, "playbook_focus"), allowed_focus)
        /\ ret.Urgency = OwnSet(Get(arg.obj, "urgency"), allowed_urgency)
        /\ ret.SubjectLine = Get(arg.obj, "subject_line")
        /\ ret.OpeningLine = Get(arg.obj, "opening_line")

-----------------------------------------------------------------------------
(* Specification of one SegmentationHelper instance shared by parallel     *)
(* callers: each caller enters build_prompt or parse_and_validate with an  *)
(* argument and later returns from it; calls of different callers          *)
(* interleave.                                                             *)

CustomAllowed == << <<"Power user", "Renewal", "Upsell">> >>

CtorArgs ==
    [task_template : {Absent(<<>>), Given(NineTemplate)},
     system_prompt : {Absent(<<>>), Given(<<Lit("s")>>)},
     allowed : {Absent(<<>>), Given(<<>>), Given(CustomAllowed)},
     allowed_urgency : {Absent({}), Given({}), Given({"asap"})},
     prompt_task_path : {Absent(""), Given("task.txt")},
     prompt_system_path : {Absent(""), Given("system.txt")}]

NoRow == [f \in Fields |-> Missing]

PromptArgs ==
    {NoRow,
     [NoRow EXCEPT !["id"] = PyInt(2), !["P"] = PyFloat(Fin(5))],
     [NoRow EXCEPT !["DEALS_30"] = PyFloat(Inf)]}

\* {"behavior_pattern": "High Email", "urgency": "nurture"}
DefaultLabelsObj ==
    [NoFields EXCEPT !["behavior_pattern"] = JStr("High Email"), !["urgency"] = JStr("nurture")]

\* {"likely_stage": "Renewal", "urgency": "asap", "subject_line": "Hi"}
CustomLabelsObj ==
    [NoFields EXCEPT !["likely_stage"] = JStr("Renewal"), !["urgency"] = JStr("asap"),
                     !["subject_line"] = JStr("Hi")]

ParseArgs ==
    {[text |-> <<"{}">>, obj |-> DefaultLabelsObj],
     [text |-> <<Fence, "json", "\n", "{}", "\n", Fence>>, obj |-> CustomLabelsObj],
     [text |-> <<"[]">>, obj |-> NoFields],
     [text |-> <<"py">>, obj |-> NoFields]}

InitInstance ==
    /\ \E a \in CtorArgs : Construct(a)
    /\ callers = NoCallers
    /\ pc = "idle"
    /\ arg = NoArg
    /\ ret = NoRet

\* a caller that is not inside a call enters build_prompt with a row
CallBuildPrompt(c) ==
    /\ callers[c].pc # "running"
    /\ \E row \in PromptArgs :
           callers' = [callers EXCEPT ![c] = [pc |-> "running", op |-> "build_prompt",
                                              arg |-> row, ret |-> NoRet]]
    /\ UNCHANGED <<instance, ctor, pc, arg, ret>>

\* a caller that is not inside a call enters parse_and_validate with a text
CallParseAndValidate(c) ==
    /\ callers[c].pc # "running"
    /\ \E a \in ParseArgs :
           callers' = [callers EXCEPT ![c] = [pc |-> "running", op |-> "parse_and_validate",
                                              arg |-> a, ret |-> NoRet]]
    /\ UNCHANGED <<instance, ctor, pc, arg, ret>>

\* ReturnBuildPrompt that assigns the rendered prompt to self.task_template
ReturnBuildPrompt_Rebinds(c) ==
    /\ callers[c].pc = "running"
    /\ callers[c].op = "build_prompt"
    /\ callers' = [callers EXCEPT ![c].pc = "returned",
                                  ![c].ret = build_prompt(Self, callers[c].arg)]
    /\ task_template' = [i \in 1..Len(build_prompt(Self, callers[c].arg).s) |->
                             Lit(build_prompt(Self, callers[c].arg).s[i])]
    /\ UNCHANGED <<system_prompt, allowed_behavior, allowed_stage, allowed_focus,
                   allowed_urgency, ctor, pc, arg, ret>>

\* build_prompt returns: it reads self.task_template and assigns nothing
ReturnBuildPrompt(c) ==
    /\ callers[c].pc = "running"
    /\ callers[c].op = "build_prompt"
    /\ callers' = [callers EXCEPT ![c].pc = "returned",
                                  ![c].ret = build_prompt(Self, callers[c].arg)]
    /\ UNCHANGED <<instance, ctor, pc, arg, ret>>

\* parse_and_validate returns: it reads the four allowed sets and assigns nothing
ReturnParseAndValidate(c) ==
    /\ callers[c].pc = "running"
    /\ callers[c].op = "parse_and_validate"
    /\ callers' = [callers EXCEPT ![c].pc = "returned",
                                  ![c].ret = parse_and_validate(Self, callers[c].arg)]
    /\ UNCHANGED <<instance, ctor, pc, arg, ret>>

NextInstance ==
    \E c \in Callers :
        \/ CallBuildPrompt(c)
        \/ CallParseAndValidate(c)
        \/ ReturnBuildPrompt(c)
        \/ ReturnParseAndValidate(c)

SpecInstance == InitInstance /\ [][NextInstance]_vars

Spec == SpecInstance

\* the fields of a freshly constructed instance
Fresh(a) ==
    [task_template |-> InitTaskTemplate(a), system_prompt |-> InitSystemPrompt(a),
     allowed_behavior |-> Column(InitAllowed(a.allowed), 1),
     allowed_stage |-> Column(InitAllowed(a.allowed), 2),
     allowed_focus |-> Column(InitAllowed(a.allowed), 3),
     allowed_urgency |-> InitAllowedUrgency(a.allowed_urgency)]

\* what the call of a caller returns when it runs alone on the instance self
Alone(self, call) ==
    IF call.op = "build_prompt" THEN build_prompt(self, call.arg)
    ELSE parse_and_validate(self, call.arg)

\* C9: whatever calls have been made and however they interleave, the template,
\* the system prompt and the four allowed sets are those of construction, and each
\* returned result is the one the call gives alone on a freshly constructed
\* instance.
C9_Immutable ==
    /\ Self = Fresh(ctor)
    /\ \A c \in Callers :
           callers[c].pc = "returned" => callers[c].ret = Alone(Fresh(ctor), callers[c])

\* both callers have returned, one from each method, on a custom instance
C9_Witness ==
    /\ ctor.allowed.some /\ ctor.allowed.v # <<>>
    /\ ctor.task_template.some
    /\ callers[1].pc = "returned" /\ callers[1].op = "build_prompt"
    /\ callers[1].ret.exc = "none"
    /\ callers[2].pc = "returned" /\ callers[2].op = "parse_and_validate"
    /\ callers[2].ret.LikelyStage = JStr("Renewal")

\* the default taxonomy, column by column
DefaultTaxonomy ==
    [task_template |-> <<>>, system_prompt |-> <<>>,
     allowed_behavior |-> {"High Deals + Multi-user", "High Email", "High Contacts only",
                           "Single-user heavy", "Multi-user low activity", "Balanced usage"},
     allowed_stage |-> {"Pipeline-driven", "Outreach-focused", "Early stage",
                        "Expansion opportunity", "Stalled", "High intent"},
     allowed_focus |-> {"Forecasting + automation", "Sequences + tracking", "Pipeline setup",
                        "Team invites", "Reactivation", "Direct upgrade"},
     allowed_urgency |-> {"reach_out_now", "nurture", "reactivate"}]

\* C10: an instance built with allowed = [] holds the default six-entry taxonomy,
\* one built with an empty urgency set holds the three default urgency values, and
\* parse_and_validate on it accepts the default labels.
C10_EmptyIsDefault ==
    /\ ctor.allowed = Given(<<>>) =>
           /\ allowed_behavior = DefaultTaxonomy.allowed_behavior
           /\ allowed_stage = DefaultTaxonomy.allowed_stage
           /\ allowed_focus = DefaultTaxonomy.allowed_focus
           /\ \A c \in Callers :
                  (callers[c].pc = "returned" /\ callers[c].arg \in ParseArgs
                       /\ callers[c].arg.obj = DefaultLabelsObj)
                      => callers[c].ret.BehaviourPattern = JStr("High Email")
    /\ ctor.allowed_urgency = Given({}) =>
           /\ allowed_urgency = DefaultTaxonomy.allowed_urgency
           /\ \A c \in Callers :
                  (callers[c].pc = "returned" /\ callers[c].arg \in ParseArgs
                       /\ callers[c].arg.obj = DefaultLabelsObj)
                      => callers[c].ret.Urgency = JStr("nurture")

\* an instance built with allowed = [] and an empty urgency set has validated the
\* default labels and kept them
C10_Witness ==
    /\ ctor.allowed = Given(<<>>)
    /\ ctor.allowed_urgency = Given({})
    /\ \E c \in Callers :
           /\ callers[c].pc = "returned"
           /\ callers[c].op = "parse_and_validate"
           /\ callers[c].ret.BehaviourPattern = JStr("High Email")
           /\ callers[c].ret.Urgency = JStr("nurture")

=============================================================================
